---- MODULE Spec2Model ----
(***************************************************************************)
(* Company management CLI (src/src/company): users, roles, companies,      *)
(* memberships, a per-company inventory, and the pickled session.          *)
(*                                                                         *)
(* One CLI invocation is one step: Context.load, the command with its      *)
(* decorators (with_app_context, require_login, require_permissions), and  *)
(* Context.save.  The data store and the session are pickled to two        *)
(* separate files, so after an invocation the objects the session refers   *)
(* to are copies of the data store's objects (Detach).                     *)
(*                                                                         *)
(* Python values: Optional[T] is a sequence of length 0 (None) or 1; a str *)
(* that is lower()ed is a sequence of code points; an object that Python   *)
(* compares by identity somewhere carries an oid, which the dataclass      *)
(* __eq__ (a comparison of the fields) never reads.                        *)
(***************************************************************************)
EXTENDS Integers, Sequences, FiniteSets, TLC

VARIABLES
    data,      \* Context.data: AppData (users, companies, roles)
    session,   \* Context._session: Session
    now,       \* dt.datetime.now(), in minutes
    out,       \* what the last invocation printed / how it ended
    cats,      \* the Category objects: ref -> [cat_id, parent]
    ret        \* the value returned by the last direct call of a models.py method

vars == <<data, session, now, out, cats, ret>>

\* ---------------------------------------------------------------- bounds

\* The clock stops here.
MaxNow == 11

\* ------------------------------------------------------- Python values

None == <<>>

Some(x) == <<x>>

IsNone(o) == o = <<>>

\* str: the strings the program lower()s, as code points.
S_Alice == <<65, 108, 105, 99, 101>>

S_alice == <<97, 108, 105, 99, 101>>

S_Bob == <<66, 111, 98>>

S_user == <<117, 115, 101, 114>>

S_superuser == <<115, 117, 112, 101, 114, 117, 115, 101, 114>>

S_dave == <<100, 97, 118, 101>>

S_BoatStore == <<66, 111, 97, 116, 32, 83, 116, 111, 114, 101>>

S_boatstore == <<98, 111, 97, 116, 32, 115, 116, 111, 114, 101>>

S_YachtsInc == <<89, 97, 99, 104, 116, 115, 32, 73, 110, 99>>

S_Nowhere == <<78, 111, 119, 104, 101, 114, 101>>

S_empty == <<>>

\* str.lower() on ASCII, one character: 'A'..'Z' (65..90) move to 'a'..'z'.
LowerChar(c) == IF c >= 65 /\ c <= 90 THEN c + 32 ELSE c

\* a.lower() == b.lower(): lower() keeps the length and maps each character.
\* (variant) the usernames are compared as they are
ExactEq(a, b) == a = b

LowerEq(a, b) ==
    /\ Len(a) = Len(b)
    /\ \A i \in DOMAIN a : LowerChar(a[i]) = LowerChar(b[i])

\* ------------------------------------------------------------ models.py

PermissionCode ==
    << "view", "edit", "delete", "create", "manage", "admin",
       "company_view", "company_edit", "company_delete", "company_create",
       "company_manage", "company_admin",
       "view_list_permissions", "view_list_users", "create_user" >>

\* Role(name, permissions); a Permission is its perm_code.
Role(name, permissions) == [name |-> name, permissions |-> permissions]

\* User(username, password_hash, roles)
User(oid, username, password_hash, roles) ==
    [oid |-> oid, username |-> username, password_hash |-> password_hash, roles |-> roles]

\* Membership(user, role, joined_date): active defaults to True.
Membership(user, role, active) == [user |-> user, role |-> role, active |-> active]

\* The dataclass __eq__ of User: the tuples of fields are compared.
UserEq(a, b) ==
    /\ a.username = b.username
    /\ a.password_hash = b.password_hash
    /\ a.roles = b.roles

\* the same object
UserIs(a, b) == a.oid = b.oid

\* (variant) every password is accepted
AuthenticateAnything(user, pw) == TRUE

\* User.authenticate
Authenticate(user, pw) == user.password_hash = pw

\* any(code == perm.perm_code for perm in permissions)
PermsContain(permissions, code) == \E i \in DOMAIN permissions : permissions[i] = code

\* User.has_permission: any() over the roles in order. A role that is None
\* raises AttributeError when the iteration reaches it.
RECURSIVE RolesGrant(_, _)
RolesGrant(roles, code) ==
    IF roles = <<>> THEN "False"
    ELSE IF IsNone(Head(roles)) THEN "Raise"
    ELSE IF PermsContain(Head(roles)[1].permissions, code) THEN "True"
    ELSE RolesGrant(Tail(roles), code)

\* (variant) any role at all grants every code
UserHasAnyRole(user, code) == IF user.roles = <<>> THEN "False" ELSE "True"

UserHasPermission(user, code) == RolesGrant(user.roles, code)

\* Membership.has_permission: self.role.permissions raises when role is None.
MembershipHasPermission(m, code) ==
    IF IsNone(m.role) THEN "Raise"
    ELSE IF PermsContain(m.role[1].permissions, code) THEN "True"
    ELSE "False"

\* (variant) the last membership of the user is the one found
FindLastMembership(company, user) ==
    LET hits == {i \in DOMAIN company.employees : UserEq(company.employees[i].user, user)}
    IN  IF hits = {} THEN None
        ELSE Some(company.employees[CHOOSE i \in hits : \A j \in hits : i >= j])

\* Company.find_membership: the first membership whose user == user.
FindMembership(company, user) ==
    LET hits == {i \in DOMAIN company.employees : UserEq(company.employees[i].user, user)}
    IN  IF hits = {} THEN None
        ELSE Some(company.employees[CHOOSE i \in hits : \A j \in hits : i <= j])

\* (variant) everybody is a member of every company
IsMemberOfAny(company, user) == TRUE

\* Company.is_member
IsMember(company, user) == ~IsNone(FindMembership(company, user))

\* (variant) a user without a membership is judged by the global roles
CompanyHasPermissionOrGlobal(company, user, code) ==
    LET membership == FindMembership(company, user)
    IN  IF IsNone(membership) THEN UserHasPermission(user, code)
        ELSE MembershipHasPermission(membership[1], code)

\* Company.has_permission
CompanyHasPermission(company, user, code) ==
    LET membership == FindMembership(company, user)
    IN  IF IsNone(membership) THEN "False"
        ELSE MembershipHasPermission(membership[1], code)

\* Company.get_employees(role): the users of the active memberships, of those
\* whose role name is in `role` when a non-empty list is given. m.role.name
\* raises AttributeError for an active membership whose role is None.
CompanyGetEmployees(company, role) ==
    LET picked == SelectSeq(company.employees,
                            LAMBDA m : m.active /\ (IsNone(role) \/ role[1] = {}
                                                      \/ (~IsNone(m.role) /\ m.role[1].name \in role[1])))
    IN  [ raised |-> /\ ~IsNone(role) /\ role[1] # {}
                     /\ \E i \in DOMAIN company.employees :
                           company.employees[i].active /\ IsNone(company.employees[i].role),
          value  |-> [i \in DOMAIN picked |-> picked[i].user] ]

\* Company.add_member
AddMember(company, user, role) ==
    [company EXCEPT !.employees = Append(@, Membership(user, role, TRUE))]

\* Category objects live in a heap, ref -> [cat_id, parent]; parent is an
\* Optional ref. Product.__post_init__: the ids met walking the parent links.
\* (variant) a category met again is taken out of the closure
RECURSIVE WalkDropsRevisited(_, _, _)
WalkDropsRevisited(heap, category, categories) ==
    IF IsNone(category) THEN categories
    ELSE IF heap[category[1]].cat_id \in categories
    THEN categories \ {heap[category[1]].cat_id}
    ELSE WalkDropsRevisited(heap, heap[category[1]].parent,
                            categories \cup {heap[category[1]].cat_id})

RECURSIVE Walk(_, _, _)
Walk(heap, category, categories) ==
    IF IsNone(category) THEN categories
    ELSE IF heap[category[1]].cat_id \in categories THEN categories
    ELSE Walk(heap, heap[category[1]].parent,
              categories \cup {heap[category[1]].cat_id})

\* (variant) only the product's own category is recorded
PostInitOwnCategory(heap, category) ==
    IF IsNone(category) THEN {} ELSE {heap[category[1]].cat_id}

PostInit(heap, category) == Walk(heap, category, {})

\* Product(uuid, name, description, price, produced_date, is_new, category)
Product(heap, uuid, name, price, category) ==
    [uuid |-> uuid, name |-> name, price |-> price, category |-> category,
     _categories_ids |-> PostInit(heap, category)]

\* Product.has_category
HasCategory(product, category) == category.cat_id \in product._categories_ids

\* product.has_category(category) as a call: an instance attribute named
\* has_category hides the method, and calling its value raises TypeError.
HasCategoryCall(product, category) ==
    IF "has_category" \in DOMAIN product THEN "Raise"
    ELSE IF HasCategory(product, category) THEN "True"
    ELSE "False"

\* Category.get_products
GetProducts(category, all_products) ==
    SelectSeq(all_products, LAMBDA p : HasCategory(p, category))

\* Inventory.get_product: the first product with that SKU.
GetProduct(inventory, sku) ==
    LET hits == {i \in DOMAIN inventory.products : inventory.products[i].uuid = sku}
    IN  IF hits = {} THEN None
        ELSE Some(CHOOSE i \in hits : \A j \in hits : i <= j)

\* -------------------------------------------------------------- data.py

DataOid(n) == [heap |-> "data", n |-> n]

\* AppData.find_role (case-sensitive)
FindRole(d, role_name) ==
    LET hits == {i \in DOMAIN d.roles : d.roles[i].name = role_name}
    IN  IF hits = {} THEN None
        ELSE Some(d.roles[CHOOSE i \in hits : \A j \in hits : i <= j])

\* AppData.find_company (case-insensitive); the index of the company.
FindCompany(d, company_name) ==
    LET hits == {i \in DOMAIN d.companies :
                    LowerEq(d.companies[i].name, company_name)}
    IN  IF hits = {} THEN None
        ELSE Some(CHOOSE i \in hits : \A j \in hits : i <= j)

\* AppData.init_default: the categories
DefaultCats ==
    [ vehicle       |-> [cat_id |-> 1,     parent |-> None],
      water_vehicle |-> [cat_id |-> 100,   parent |-> Some("vehicle")],
      parts         |-> [cat_id |-> 2,     parent |-> None],
      yacht         |-> [cat_id |-> 1000,  parent |-> Some("water_vehicle")],
      boat          |-> [cat_id |-> 1001,  parent |-> Some("water_vehicle")],
      motor         |-> [cat_id |-> 10000, parent |-> Some("parts")],
      sail          |-> [cat_id |-> 1002,  parent |-> Some("water_vehicle")],
      electronics   |-> [cat_id |-> 3,     parent |-> None] ]

user_role == Role("user", <<"view">>)

manager_role == Role("company_manager", <<"view", "company_view", "company_edit">>)

worker_role == Role("company_worker", <<"view", "company_view">>)

superuser_role == Role("superuser", PermissionCode)

\* AppData.init_default: users, memberships, products, inventories, companies.
\* (Two products of each inventory are kept.)
InitDefault ==
    LET alice     == User(DataOid(1), S_Alice, "alice", <<Some(user_role)>>)
        bob       == User(DataOid(2), S_Bob, "bob", <<Some(user_role)>>)
        user      == User(DataOid(3), S_user, "user", <<Some(user_role)>>)
        superuser == User(DataOid(4), S_superuser, "superuser", <<Some(superuser_role)>>)
        yacht1    == Product(DefaultCats, "SKU001", "Yacht X", 700000, Some("yacht"))
        motor1    == Product(DefaultCats, "SKU003", "Motor B", 5000, Some("motor"))
        yacht2    == Product(DefaultCats, "SKU006", "Ocean Master 48", 1200000, Some("yacht"))
        navsys    == Product(DefaultCats, "SKU010", "NavPro 5000", 3500, Some("electronics"))
    IN  [ users |-> <<alice, bob, user, superuser>>,
          roles |-> <<user_role, manager_role, worker_role>>,
          companies |-> <<
              [ oid |-> DataOid(1), name |-> S_BoatStore,
                inventory |-> [description |-> "Boat Store Main Warehouse",
                               products |-> <<yacht1, motor1>>],
                employees |-> <<Membership(alice, Some(manager_role), TRUE)>> ],
              [ oid |-> DataOid(2), name |-> S_YachtsInc,
                inventory |-> [description |-> "Yacht Inc Premium Showroom",
                               products |-> <<yacht2, navsys>>],
                employees |-> <<Membership(bob, Some(manager_role), TRUE)>> ] >> ]

\* (variant) every company's inventory, whatever company is selected
GetInventoriesOfAll(d, company) == [i \in DOMAIN d.companies |-> d.companies[i].inventory]

\* AppData.inventories / AppData.get_inventories
GetInventories(d, company) ==
    IF IsNone(company) THEN [i \in DOMAIN d.companies |-> d.companies[i].inventory]
    ELSE <<company[1].inventory>>

\* ------------------------------------------------------------- utils.py

\* dt.timedelta(minutes=10) in Context.user_logged_in
SessionTimeout == 10

\* Session(): no user, no company; last_visited_date defaults to the
\* dt.datetime.now() evaluated when the class is defined, at process start.
NewSession(t) == [_current_user |-> None, company |-> None, last_visited_date |-> t]

\* (variant) reading the user leaves the timestamp alone
SessionPeekCurrentUser(s, t) == [session |-> s, value |-> s._current_user]

\* Session.current_user (getter): a user that is set refreshes last_visited_date.
SessionGetCurrentUser(s, t) ==
    [ session |-> IF IsNone(s._current_user) THEN s ELSE [s EXCEPT !.last_visited_date = t],
      value   |-> s._current_user ]

\* Session.current_user (setter) / Context.set_user
SetUser(s, user, t) == [s EXCEPT !._current_user = Some(user), !.last_visited_date = t]

\* Context.set_company
SetCompany(s, company) == [s EXCEPT !.company = Some(company)]

\* (variant) the reset forgets the user and keeps the company
ResetSessionUserOnly(s, t) == [s EXCEPT !._current_user = None, !.last_visited_date = t]

\* Context.reset_session
ResetSession(s, t) == NewSession(t)

\* (variant) a session is expired from exactly the timeout on
UserLoggedInInclusive(s, t) ==
    LET s1 == IF s.last_visited_date <= t - SessionTimeout THEN NewSession(t) ELSE s
    IN  [ session |-> IF IsNone(s1._current_user) THEN s1 ELSE [s1 EXCEPT !.last_visited_date = t],
          value   |-> ~IsNone(s1._current_user) ]

\* Context.user_logged_in
UserLoggedIn(s, t) ==
    LET s1 == IF s.last_visited_date < t - SessionTimeout THEN ResetSession(s, t) ELSE s
        r  == SessionGetCurrentUser(s1, t)
    IN  [session |-> r.session, value |-> ~IsNone(r.value)]

\* pickle: the objects of a saved session are copies of the data store's;
\* one dump keeps the identities within it.
DetachUser(u) == [u EXCEPT !.oid = [heap |-> "session", n |-> @.n]]

DetachCompany(c) ==
    [c EXCEPT !.oid = [heap |-> "session", n |-> @.n],
              !.employees = [i \in DOMAIN c.employees |->
                                [c.employees[i] EXCEPT !.user = DetachUser(c.employees[i].user)]]]

\* Context.save / Context.load of the session file
Detach(s) ==
    [s EXCEPT !._current_user = IF IsNone(@) THEN None ELSE Some(DetachUser(@[1])),
              !.company = IF IsNone(@) THEN None ELSE Some(DetachCompany(@[1]))]

\* (variant) the user's global roles decide, company or not
PermittedGlobally(s, permission) == UserHasPermission(s._current_user[1], permission)

\* require_permissions: one permission, checked against the user's global
\* roles when no company is selected, against the company otherwise.
Permitted(s, permission) ==
    IF IsNone(s.company) THEN UserHasPermission(s._current_user[1], permission)
    ELSE CompanyHasPermission(s.company[1], s._current_user[1], permission)

\* require_permissions: the loop over the permissions, from the i-th on.
RECURSIVE CheckPermissions(_, _, _)
CheckPermissions(s, permissions, i) ==
    IF i > Len(permissions) THEN "ok"
    ELSE LET r == Permitted(s, permissions[i])
         IN  IF r = "Raise" THEN "Raise"
             ELSE IF r = "False" THEN "Not Authorized"
             ELSE CheckPermissions(s, permissions, i + 1)

\* (variant) a missing user is reported as a missing permission
RequireLoginNotAuthorized(s, t) ==
    LET li == UserLoggedIn(s, t)
    IN  [session |-> li.session, result |-> IF li.value THEN "ok" ELSE "Not Authorized"]

\* require_login: the session after the check and how the check ended.
RequireLogin(s, t) ==
    LET li == UserLoggedIn(s, t)
    IN  [session |-> li.session, result |-> IF li.value THEN "ok" ELSE "Login required"]

\* require_permissions(permissions): require_login first, then the
\* permissions (reading ctx.current_user there refreshes the timestamp to
\* the same instant).
RequirePermissions(s, t, permissions) ==
    LET li == RequireLogin(s, t)
    IN  IF li.result # "ok" THEN li
        ELSE [session |-> li.session, result |-> CheckPermissions(li.session, permissions, 1)]

\* ---------------------------------------------------------------- cli.py

\* What an invocation leaves to observe: the command and its arguments, the
\* message it ended with, whether the command's body ran, the SKUs it
\* printed, and whether the session it loaded held a user.
NoOutput ==
    [cmd |-> "", args |-> <<>>, result |-> "", ran |-> FALSE, shown |-> {},
     had_user |-> FALSE]

Output(cmd, result, ran, shown) ==
    [cmd |-> cmd, args |-> <<>>, result |-> result, ran |-> ran, shown |-> shown,
     had_user |-> ~IsNone(session._current_user)]

\* the permissions each command's require_permissions decorator names
RequiredPermissions ==
    [ inventory_view            |-> <<"view">>,
      inventory_search          |-> <<"view">>,
      inventory_product_details |-> <<"company_view">>,
      inventory_update          |-> <<"company_edit">>,
      employees                 |-> <<"company_view">>,
      list                      |-> <<"view">>,
      user_list                 |-> <<"view_list_users">>,
      inventory_categories      |-> <<"view">>,
      user_roles                |-> <<"view_list_permissions">>,
      user_add                  |-> <<"create_user">> ]

\* with_app_context: the command returned, ctx.save() pickles the data and
\* the session.
Saved(d, s, o) ==
    /\ data' = d
    /\ session' = Detach(s)
    /\ out' = o
    /\ UNCHANGED <<now, cats, ret>>

\* with_app_context: the command raised, ctx.save() is not reached and the
\* files stay as they were.
RaisedWith(o) ==
    /\ out' = o
    /\ UNCHANGED <<data, session, now, cats, ret>>

Raised(cmd, ran) == RaisedWith(Output(cmd, "Raise", ran, {}))

\* require_permissions(permissions) as the command's decorator applies it to
\* the loaded session
Checked(cmd) == RequirePermissions(session, now, RequiredPermissions[cmd])

\* A command under require_permissions. b is what the body does when run
\* on the checked session, Checked(cmd).session: [result, shown, data,
\* session], with result "Raise" when it raises.
\* args is what the body is called with when the check lets it run.
GatedArgs(cmd, args, b) ==
    LET g == Checked(cmd)
        o(result, ran, shown) ==
            [Output(cmd, result, ran, shown) EXCEPT !.args = IF ran THEN args ELSE <<>>]
    IN  IF g.result = "Raise" THEN RaisedWith(o("Raise", FALSE, {}))
        ELSE IF g.result # "ok" THEN Saved(data, g.session, o(g.result, FALSE, {}))
        ELSE IF b.result = "Raise" THEN RaisedWith(o("Raise", TRUE, {}))
        ELSE Saved(b.data, b.session, o(b.result, TRUE, b.shown))

Gated(cmd, b) == GatedArgs(cmd, <<>>, b)

\* what a body that changes nothing returns
Shows(s, result, shown) ==
    [result |-> result, shown |-> shown, data |-> data, session |-> s]

\* the SKUs of the products of a list of inventories
RECURSIVE Skus(_)
Skus(inventories) ==
    IF inventories = <<>> THEN {}
    ELSE {Head(inventories).products[i].uuid : i \in DOMAIN Head(inventories).products}
         \cup Skus(Tail(inventories))

LoginOutput(username, password, company_name, result, ran, shown) ==
    [Output("auth_login", result, ran, shown) EXCEPT
        !.args = <<username, password, company_name>>]

\* auth login
Login(username, password, company_name) ==
    LET s0     == ResetSession(session, now)
        hits   == {i \in DOMAIN data.users : LowerEq(data.users[i].username, username)}
        _user  == IF hits = {} THEN None
                  ELSE Some(data.users[CHOOSE i \in hits : \A j \in hits : i <= j])
        s1     == SetUser(s0, _user[1], now)
        chits  == {i \in DOMAIN data.companies : data.companies[i].name = company_name[1]}
        company == IF chits = {} THEN None
                   ELSE Some(data.companies[CHOOSE i \in chits : \A j \in chits : i <= j])
    IN  IF IsNone(_user) \/ ~Authenticate(_user[1], password)
        THEN Saved(data, s0, LoginOutput(username, password, company_name, "Invalid credentials", TRUE, {}))
        ELSE IF IsNone(company_name) \/ company_name[1] = S_empty
        THEN Saved(data, s1, LoginOutput(username, password, company_name, "Logged in", TRUE, {}))
        ELSE IF IsNone(company)
        THEN Saved(data, s1, LoginOutput(username, password, company_name, "Company not found", TRUE, {}))
        ELSE IF ~IsMember(company[1], _user[1])
        THEN Saved(data, s1, LoginOutput(username, password, company_name, "Not a member", TRUE, {}))
        ELSE Saved(data, SetCompany(s1, company[1]),
                   LoginOutput(username, password, company_name, "Logged in company", TRUE, {}))

\* auth logout
Logout ==
    Saved(data, ResetSession(session, now), Output("auth_logout", "Logged out", TRUE, {}))

\* user show-me (require_login only). Its body prints membership.role.name
\* with a company selected, else role.name of each of the user's roles; a
\* role that is None raises AttributeError.
GetMeBody(s) ==
    LET membership == FindMembership(s.company[1], s._current_user[1])
        roles      == s._current_user[1].roles
    IN  IF ~IsNone(s.company)
        THEN IF ~IsNone(membership) /\ IsNone(membership[1].role) THEN "Raise" ELSE "ok"
        ELSE IF \E i \in DOMAIN roles : IsNone(roles[i]) THEN "Raise" ELSE "ok"

GetMe ==
    LET g == RequireLogin(session, now)
    IN  IF g.result # "ok" THEN Saved(data, g.session, Output("user_show_me", g.result, FALSE, {}))
        ELSE IF GetMeBody(g.session) = "Raise" THEN Raised("user_show_me", TRUE)
        ELSE Saved(data, g.session, Output("user_show_me", "ok", TRUE, {}))

\* inventory view: prints p.category.name of every product listed, which
\* raises for a product whose category is None.
GetInventoryListBody(s) ==
    LET invs == GetInventories(data, s.company)
    IN  IF \E i \in DOMAIN invs : \E j \in DOMAIN invs[i].products :
               IsNone(invs[i].products[j].category)
        THEN Shows(s, "Raise", {})
        ELSE Shows(s, "ok", Skus(invs))

GetInventoryList == Gated("inventory_view", GetInventoryListBody(Checked("inventory_view").session))

\* AppData.find_category: the category with that id, if any
FindCategory(categories, category_id) ==
    LET hits == {c \in DOMAIN categories : categories[c].cat_id = category_id}
    IN  IF hits = {} THEN None ELSE Some(CHOOSE c \in hits : TRUE)

\* the SKUs of a list of products
Uuids(products) == {products[i].uuid : i \in DOMAIN products}

\* inventory search: by SKU when one is given, else by category id
SearchInventoryBody(s, sku, category_id) ==
    LET invs     == GetInventories(data, s.company)
        category == FindCategory(cats, category_id[1])
        found(i) == IF ~IsNone(sku)
                    THEN IF IsNone(GetProduct(invs[i], sku[1])) THEN {} ELSE {sku[1]}
                    ELSE IF IsNone(category) THEN {}
                    ELSE Uuids(GetProducts(cats[category[1]], invs[i].products))
        shown    == UNION {found(i) : i \in DOMAIN invs}
    IN  IF IsNone(sku) /\ IsNone(category_id)
        THEN Shows(s, "Search filters were not provided", {})
        ELSE IF shown = {} THEN Shows(s, "Product not found", {})
        ELSE Shows(s, "ok", shown)

SearchInventory(sku, category_id) ==
    GatedArgs("inventory_search", <<sku, category_id>>,
          SearchInventoryBody(Checked("inventory_search").session, sku, category_id))

\* inventory product-details
GetProductDetailsBody(s, sku) ==
    LET invs == GetInventories(data, s.company)
    IN  IF \E i \in DOMAIN invs : ~IsNone(GetProduct(invs[i], sku))
        THEN Shows(s, "ok", {sku})
        ELSE Shows(s, "Product not found", {})

GetProductDetails(sku) ==
    GatedArgs("inventory_product_details", <<sku>>,
          GetProductDetailsBody(Checked("inventory_product_details").session, sku))

\* the commands that list what the data store holds
ListBody(s) == Shows(s, "ok", {})

GetEmployees == Gated("employees", ListBody(Checked("employees").session))

GetCompanies == Gated("list", ListBody(Checked("list").session))

GetAllUsers == Gated("user_list", ListBody(Checked("user_list").session))

GetInventoryCategories == Gated("inventory_categories", ListBody(Checked("inventory_categories").session))

GetRoles == Gated("user_roles", ListBody(Checked("user_roles").session))

\* What hasattr finds on a Product besides the attributes of the instance
\* (the record's fields): the methods the class defines and, among what
\* object provides, __class__.
ClassAttributes == {"has_category", "to_json", "update", "__post_init__", "__class__"}

\* hasattr(product, k)
HasAttr(product, k) == k \in DOMAIN product \/ k \in ClassAttributes

\* setattr(product, k, v): the instance gets or changes the attribute
SetAttr(product, k, v) ==
    [x \in DOMAIN product \cup {k} |-> IF x = k THEN v ELSE product[x]]

\* Product.update(**kwargs), kwargs being the pairs <<key, value>> of the
\* mapping in its order: setattr for each key that hasattr finds. Assigning
\* __class__ a value that is no class raises TypeError, after the keys before
\* it were set. The result is the product and whether the call raised.
RECURSIVE ProductUpdate(_, _)
ProductUpdate(product, kwargs) ==
    IF kwargs = <<>> THEN [product |-> product, raised |-> FALSE]
    ELSE IF ~HasAttr(product, Head(kwargs)[1]) THEN ProductUpdate(product, Tail(kwargs))
    ELSE IF Head(kwargs)[1] = "__class__" THEN [product |-> product, raised |-> TRUE]
    ELSE ProductUpdate(SetAttr(product, Head(kwargs)[1], Head(kwargs)[2]), Tail(kwargs))

\* (variant) the prompt takes every answer for a yes
ConfirmAlways(answer) == TRUE

\* click.confirm(...): what the user answers to the prompt
Confirm(answer) == answer

\* the first of the inventories that holds the SKU, with the product's place
FindInInventories(invs, sku) ==
    LET hits == {i \in DOMAIN invs : ~IsNone(GetProduct(invs[i], sku))}
    IN  IF hits = {} THEN None
        ELSE LET i == CHOOSE i \in hits : \A j \in hits : i <= j
             IN  Some([inv |-> i, prod |-> GetProduct(invs[i], sku)[1]])

\* inventory update. product is what json.loads makes of the option: a
\* JSONDecodeError, a dict, or a value that is no mapping (update(**v) then
\* raises TypeError). With a company selected the product is the one of the
\* session's company object, else the one of the data store.
UpdateInventoryBody(s, sku, product, confirm) ==
    LET invs == GetInventories(data, s.company)
        at   == FindInInventories(invs, sku)
        prod == invs[at[1].inv].products[at[1].prod]
        upd  == ProductUpdate(prod, product.value)
        new  == upd.product
    IN  IF product.parse = "JSONDecodeError" THEN Shows(s, "Invalid JSON", {})
        ELSE IF IsNone(at) THEN Shows(s, "Product not found", {})
        ELSE IF ~Confirm(confirm) THEN Shows(s, "Update cancelled", {})
        ELSE IF product.parse # "dict" THEN Shows(s, "Raise", {})
        ELSE IF upd.raised THEN Shows(s, "Raise", {})
        ELSE IF IsNone(s.company)
        THEN [ result |-> "Product updated", shown |-> {sku}, session |-> s,
               data |-> [data EXCEPT !.companies[at[1].inv].inventory.products[at[1].prod] = new] ]
        ELSE [ result |-> "Product updated", shown |-> {sku}, data |-> data,
               session |-> [s EXCEPT !.company[1].inventory.products[at[1].prod] = new] ]

UpdateInventory(sku, product, confirm) ==
    GatedArgs("inventory_update", <<sku, product, confirm>>,
          UpdateInventoryBody(Checked("inventory_update").session, sku, product, confirm))

\* user add
CreateUserBody(s, username, password, role, company, confirm) ==
    LET existing_user == \E i \in DOMAIN data.users : LowerEq(data.users[i].username, username)
        default_role == FindRole(data, "user")
        r            == FindRole(data, role)
        _roles       == IF IsNone(r) THEN <<>> ELSE <<r>>
        oid          == DataOid(Len(data.users) + 1)
        company_obj  == FindCompany(data, company[1])
        member       == User(oid, username, password, <<default_role>>)
        plain        == User(oid, username, password, _roles)
    IN  IF existing_user THEN Shows(s, "User already exists", {})
        ELSE IF ~Confirm(confirm) THEN Shows(s, "User creation cancelled", {})
        ELSE IF IsNone(company) \/ company[1] = S_empty
        THEN [ result |-> "User added to system", shown |-> {}, session |-> s,
               data |-> [data EXCEPT !.users = Append(@, plain)] ]
        ELSE IF IsNone(company_obj) THEN Shows(s, "Company not found", {})
        ELSE [ result |-> "User added to company", shown |-> {}, session |-> s,
               data |-> [data EXCEPT !.companies[company_obj[1]] = AddMember(@, member, r),
                                     !.users = Append(@, member)] ]

CreateUser(username, password, role, company, confirm) ==
    GatedArgs("user_add", <<username, password, role, company, confirm>>,
          CreateUserBody(Checked("user_add").session, username, password, role, company, confirm))

\* exit: confirmed, the session is reset and SystemExit is raised, which
\* leaves with_app_context before ctx.save(); declined, the command returns.
ExitCompany(confirm) ==
    IF Confirm(confirm)
    THEN /\ out' = Output("exit", "Bye!", TRUE, {})
         /\ UNCHANGED <<data, session, now, cats, ret>>
    ELSE Saved(data, session, Output("exit", "Exit cancelled", TRUE, {}))

\* Context.set_user, called by a host that loads and saves the context
ContextSetUser(user) ==
    /\ data' = data
    /\ session' = Detach(SetUser(session, user, now))
    /\ out' = NoOutput
    /\ UNCHANGED <<now, cats, ret>>

\* Context.set_company, called by a host that loads and saves the context
ContextSetCompany(company) ==
    /\ data' = data
    /\ session' = Detach(SetCompany(session, company))
    /\ out' = NoOutput
    /\ UNCHANGED <<now, cats, ret>>

\* time passes between two invocations
Tick(minutes) ==
    /\ now + minutes <= MaxNow
    /\ now' = now + minutes
    /\ out' = NoOutput
    /\ UNCHANGED <<data, session, cats, ret>>

\* ------------------------------------------------------------ the system

\* what the command line is given
Usernames == {S_alice, S_superuser, S_dave}

Passwords == {"alice", "superuser"}

CompanyNames == {None, Some(S_BoatStore), Some(S_boatstore), Some(S_YachtsInc)}

SkuInputs == {"SKU001", "SKU999"}

Payloads ==
    { [parse |-> "JSONDecodeError", value |-> <<>>],
      [parse |-> "dict", value |-> << <<"price", 1>>, <<"bogus", 1>> >>],
      [parse |-> "dict", value |-> << <<"price", 2>>, <<"__class__", 1>> >>],
      [parse |-> "list", value |-> <<>>] }

SearchSkus == {None, Some("SKU001")}

SearchCategoryIds == {None, Some(100)}

\* what `user add` is given: username, role, company, the answer to the prompt
CreateUserInputs ==
    { <<S_dave,  "company_manager", None,             TRUE>>,
      <<S_dave,  "ghost",           None,             TRUE>>,
      <<S_dave,  "company_manager", Some(S_boatstore), TRUE>>,
      <<S_dave,  "ghost",           Some(S_boatstore), TRUE>>,
      <<S_dave,  "company_manager", Some(S_Nowhere),   TRUE>>,
      <<S_dave,  "company_manager", None,             FALSE>>,
      <<S_alice, "company_manager", None,             TRUE>> }

\* the minutes between two invocations: two steps reach exactly the timeout
\* (5 + 5) and just past it (5 + 6)
TickSteps == {5, 6}

\* Context.load with no files: the default data and a new session.
Init ==
    /\ data = InitDefault
    /\ now = 0
    /\ session = NewSession(0)
    /\ out = NoOutput
    /\ cats = DefaultCats
    /\ ret = None

\* the commands behind require_login or require_permissions
GatedCommand ==
    \/ GetMe
    \/ GetInventoryList
    \/ \E sku \in SearchSkus, c \in SearchCategoryIds : SearchInventory(sku, c)
    \/ \E sku \in SkuInputs : GetProductDetails(sku)
    \/ \E sku \in SkuInputs, p \in Payloads, y \in BOOLEAN : UpdateInventory(sku, p, y)
    \/ GetEmployees
    \/ GetCompanies
    \/ GetAllUsers
    \/ GetInventoryCategories
    \/ GetRoles
    \/ \E i \in CreateUserInputs : CreateUser(i[1], "alice", i[2], i[3], i[4])

Command ==
    \/ \E u \in Usernames, p \in Passwords, c \in CompanyNames : Login(u, p, c)
    \/ Logout
    \/ GatedCommand
    \/ \E y \in BOOLEAN : ExitCompany(y)

\* the program as main() runs it, one invocation after the other
Next ==
    \/ Command
    \/ \E m \in TickSteps : Tick(m)

Spec == Init /\ [][Next]_vars

\* a host that sets the session through Context.set_user and
\* Context.set_company, as the tests do, and then invokes gated commands
NextApi ==
    \/ GatedCommand
    \/ Logout
    \/ \E m \in TickSteps : Tick(m)
    \/ \E i \in DOMAIN data.users : ContextSetUser(data.users[i])
    \/ \E i \in DOMAIN data.companies : ContextSetCompany(data.companies[i])

SpecApi == Init /\ [][NextApi]_vars

\* ------------------------------------------- models.py, called directly

\* the most memberships a company gets
MaxMembers == 3

\* the most products an inventory gets
MaxProducts == 2

\* The users handed to Company's methods: Alice (a member of Boat Store),
\* the copy of Alice that a reloaded session holds, and superuser (every
\* permission, no membership).
ModelUsers ==
    {InitDefault.users[1], DetachUser(InitDefault.users[1]), InitDefault.users[4]}

ModelRoles == {Some(user_role), None}

ModelCodes == {"view", "company_edit", "create_user"}

\* company.add_member(user, role, joined_date)
CallAddMember(c, user, role) ==
    /\ Len(data.companies[c].employees) < MaxMembers
    /\ data' = [data EXCEPT !.companies[c] = AddMember(@, user, role)]
    /\ ret' = None
    /\ UNCHANGED <<session, now, out, cats>>

\* company.has_permission(user, code)
CallHasPermission(c, user, code) ==
    /\ ret' = Some([op |-> "has_permission", company |-> c, user |-> user, code |-> code,
                    value |-> CompanyHasPermission(data.companies[c], user, code)])
    /\ UNCHANGED <<data, session, now, out, cats>>

\* the role name lists handed to get_employees
ModelRoleFilters == {None, Some({"company_manager"})}

\* membership.active = active, for the i-th membership of the company
SetActive(c, i, active) ==
    /\ data.companies[c].employees[i].active # active
    /\ data' = [data EXCEPT !.companies[c].employees[i].active = active]
    /\ ret' = None
    /\ UNCHANGED <<session, now, out, cats>>

\* company.get_employees(role)
CallGetEmployees(c, role) ==
    LET r == CompanyGetEmployees(data.companies[c], role)
    IN  /\ ret' = Some([op |-> "get_employees", company |-> c, role |-> role,
                        raised |-> r.raised, value |-> r.value])
        /\ UNCHANGED <<data, session, now, out, cats>>

NextCompany ==
    \/ \E u \in ModelUsers, r \in ModelRoles : CallAddMember(1, u, r)
    \/ \E u \in ModelUsers, code \in ModelCodes : CallHasPermission(1, u, code)
    \/ \E i \in DOMAIN data.companies[1].employees, b \in BOOLEAN : SetActive(1, i, b)
    \/ \E role \in ModelRoleFilters : CallGetEmployees(1, role)

SpecCompany == Init /\ [][NextCompany]_vars

\* The Category objects a caller may build: three of them with distinct
\* ids, each parent any of the three or None (cycles included).
CatRefs == {"c0", "c1", "c2"}

CatIds == [c0 |-> 1, c1 |-> 100, c2 |-> 1000]

CatHeaps ==
    { [c \in CatRefs |-> [cat_id |-> CatIds[c], parent |-> parent[c]]] :
        parent \in [CatRefs -> {None} \cup {Some(r) : r \in CatRefs}] }

ProductSkus == <<"P1", "P2", "P3">>

\* An AppData with one company whose inventory is empty.
InitCatalog ==
    /\ cats \in CatHeaps
    /\ data = [ users |-> <<>>, roles |-> <<>>,
                companies |-> << [ oid |-> DataOid(1), name |-> S_BoatStore,
                                   inventory |-> [description |-> "", products |-> <<>>],
                                   employees |-> <<>> ] >> ]
    /\ now = 0
    /\ session = NewSession(0)
    /\ out = NoOutput
    /\ ret = None

\* Product(..., category=category), put into the inventory
NewProduct(category) ==
    LET products == data.companies[1].inventory.products
        product  == Product(cats, ProductSkus[Len(products) + 1], "product", 1, category)
    IN  /\ Len(products) < MaxProducts
        /\ data' = [data EXCEPT !.companies[1].inventory.products = Append(@, product)]
        /\ ret' = None
        /\ UNCHANGED <<session, now, out, cats>>

\* product.has_category(category)
CallHasCategory(i, c) ==
    /\ ret' = Some([op |-> "has_category", product |-> i, category |-> c,
                    value |-> HasCategory(data.companies[1].inventory.products[i], cats[c])])
    /\ UNCHANGED <<data, session, now, out, cats>>

\* category.get_products(all_products) / Inventory.get_products_by_category
CallGetProducts(c) ==
    /\ ret' = Some([op |-> "get_products", category |-> c,
                    value |-> GetProducts(cats[c], data.companies[1].inventory.products)])
    /\ UNCHANGED <<data, session, now, out, cats>>

NextCatalog ==
    \/ \E k \in {None} \cup {Some(r) : r \in CatRefs} : NewProduct(k)
    \/ \E i \in DOMAIN data.companies[1].inventory.products, c \in CatRefs : CallHasCategory(i, c)
    \/ \E c \in CatRefs : CallGetProducts(c)

SpecCatalog == InitCatalog /\ [][NextCatalog]_vars

\* Categories and products changed after construction: category.parent is
\* assigned, product.update is called.
ParentEdits == { <<"c1", None>>, <<"c1", Some("c0")>>, <<"c0", Some("c2")>> }

UpdateMaps ==
    { << <<"price", 2>>, <<"bogus", 1>> >>,
      << <<"category", None>> >>,
      << <<"_categories_ids", {}>> >>,
      << <<"has_category", 5>> >>,
      << <<"price", 2>>, <<"__class__", 1>>, <<"name", "renamed">> >> }

\* the chain c0 -> c1 -> c2 -> None and an empty inventory
InitCatalogEdit ==
    /\ InitCatalog
    /\ cats["c0"].parent = Some("c1")
    /\ cats["c1"].parent = Some("c2")
    /\ cats["c2"].parent = None

\* category.parent = parent
SetParent(c, parent) ==
    /\ cats' = [cats EXCEPT ![c].parent = parent]
    /\ ret' = None
    /\ UNCHANGED <<data, session, now, out>>

\* product.update(**kwargs) on the i-th product of the inventory
CallUpdate(i, kwargs) ==
    LET upd == ProductUpdate(data.companies[1].inventory.products[i], kwargs)
    IN  /\ data' = [data EXCEPT !.companies[1].inventory.products[i] = upd.product]
        /\ ret' = Some([op |-> "update", product |-> i, kwargs |-> kwargs,
                        raised |-> upd.raised])
        /\ UNCHANGED <<session, now, out, cats>>

NextCatalogEdit ==
    \/ \E k \in {None} \cup {Some(r) : r \in CatRefs} : NewProduct(k)
    \/ \E e \in ParentEdits : SetParent(e[1], e[2])
    \/ \E i \in DOMAIN data.companies[1].inventory.products, kwargs \in UpdateMaps :
          CallUpdate(i, kwargs)

SpecCatalogEdit == InitCatalogEdit /\ [][NextCatalogEdit]_vars

\* ----------------------------------------------------------- properties

\* the commands under require_permissions, and those under either decorator
PermissionGated == DOMAIN RequiredPermissions

LoginGated == PermissionGated \cup {"user_show_me"}

\* the permission codes a command requires
Required(cmd) == {RequiredPermissions[cmd][i] : i \in DOMAIN RequiredPermissions[cmd]}

\* the codes of the union of the permissions of the user's global roles
GlobalCodes(user) ==
    UNION { {user.roles[i][1].permissions[j] : j \in DOMAIN user.roles[i][1].permissions} :
            i \in {k \in DOMAIN user.roles : user.roles[k] # <<>>} }

\* no membership of the company is held by a user with these field values
NoMembership(company, user) ==
    \A i \in DOMAIN company.employees :
        \/ company.employees[i].user.username # user.username
        \/ company.employees[i].user.password_hash # user.password_hash
        \/ company.employees[i].user.roles # user.roles

\* two strings are the same up to the case of their ASCII letters
SameFolded(a, b) ==
    /\ Len(a) = Len(b)
    /\ \A i \in DOMAIN a :
          (IF a[i] \in 65..90 THEN a[i] + 32 ELSE a[i]) = (IF b[i] \in 65..90 THEN b[i] + 32 ELSE b[i])

\* the first stored user whose username is the given one up to case
StoredUser(username) ==
    LET hits == {i \in DOMAIN data.users : SameFolded(data.users[i].username, username)}
    IN  IF hits = {} THEN <<>>
        ELSE <<data.users[CHOOSE i \in hits : \A j \in hits : i <= j]>>

\* C1: with a user and a company in a fresh session, a permission-gated
\* command runs iff Company.has_permission(user, code) is true for every
\* code it requires; the user's global roles play no part, so a user with
\* no membership in that company is denied ("Not Authorized") whatever the
\* user holds globally.
C1_CompanyScopedGate ==
    [][ ( /\ out'.cmd \in PermissionGated
          /\ session._current_user # <<>>
          /\ session.company # <<>>
          /\ now - session.last_visited_date <= 10 )
        => LET user    == session._current_user[1]
               company == session.company[1]
           IN  /\ out'.ran <=> \A code \in Required(out'.cmd) :
                                  CompanyHasPermission(company, user, code) = "True"
               /\ NoMembership(company, user)
                    => (out'.result = "Not Authorized" /\ ~out'.ran /\ data' = data)
      ]_vars

\* C1 happens: a user who holds every required code globally, with a
\* company selected in which the user has no membership, was refused.
C1_Witness ==
    /\ out.cmd \in PermissionGated
    /\ out.result = "Not Authorized"
    /\ session._current_user # <<>>
    /\ session.company # <<>>
    /\ NoMembership(session.company[1], session._current_user[1])
    /\ Required(out.cmd) \subseteq GlobalCodes(session._current_user[1])

\* C2: with a user and no company in a fresh session, a permission-gated
\* command runs iff every code it requires is in the union of the codes of
\* the user's global roles, and is refused with "Not Authorized" otherwise.
C2_GlobalGate ==
    [][ ( /\ out'.cmd \in PermissionGated
          /\ session._current_user # <<>>
          /\ session.company = <<>>
          /\ now - session.last_visited_date <= 10 )
        => /\ out'.ran <=> Required(out'.cmd) \subseteq GlobalCodes(session._current_user[1])
           /\ ~out'.ran => (out'.result = "Not Authorized" /\ data' = data)
      ]_vars

\* C2 happens: Alice, whose global role grants only view, with no company
\* selected, was refused inventory update (company_edit).
C2_Witness ==
    /\ out.cmd = "inventory_update"
    /\ out.result = "Not Authorized"
    /\ session._current_user # <<>>
    /\ session.company = <<>>
    /\ session._current_user[1].username = S_Alice
    /\ GlobalCodes(session._current_user[1]) = {"view"}

\* C3: with no user in the session, every command under require_login or
\* require_permissions ends with "Login required" (not "Not Authorized"),
\* its body does not run and the data store is left as it was.
C3_LoginRequired ==
    [][ (out'.cmd \in LoginGated /\ session._current_user = <<>>)
        => /\ out'.result = "Login required"
           /\ ~out'.ran
           /\ data' = data
           /\ session'._current_user = <<>>
      ]_vars

\* C3 happens: a permission-gated command was invoked with no user set.
C3_Witness ==
    /\ out.cmd \in PermissionGated
    /\ ~out.had_user
    /\ out.result = "Login required"
    /\ ~out.ran

\* C5: when a login check runs more than 10 minutes after the session's
\* last access, the command ends with "Login required" without running,
\* even though the session held a user, and the session that is saved has
\* no user and no company; at exactly 10 minutes the session is still fresh.
C5_Expiry ==
    [][ out'.cmd \in LoginGated
        => /\ now - session.last_visited_date > 10
                => /\ out'.result = "Login required"
                   /\ ~out'.ran
                   /\ session'._current_user = <<>>
                   /\ session'.company = <<>>
           /\ (session._current_user # <<>> /\ now - session.last_visited_date = 10)
                => out'.result # "Login required"
      ]_vars

\* C5 happens: a session that held a user was found expired and cleared.
C5_Witness ==
    /\ out.cmd \in LoginGated
    /\ out.had_user
    /\ out.result = "Login required"
    /\ session._current_user = <<>>
    /\ session.company = <<>>

\* C6: expiration is sliding. A login that sets the user and every gated
\* command that passes its checks and returns leave the last-access
\* timestamp at the current time; a session holding a user whose last access
\* is at most 10 minutes old is never reported as logged out, and keeps its
\* user.
C6_Sliding ==
    [][ /\ (out'.cmd \in LoginGated /\ out'.ran /\ out'.result # "Raise")
            => (session'.last_visited_date = now /\ session'._current_user # <<>>)
        /\ (out'.cmd = "auth_login" /\ session'._current_user # <<>>)
            => session'.last_visited_date = now
        /\ ( /\ out'.cmd \in LoginGated
             /\ session._current_user # <<>>
             /\ now - session.last_visited_date <= 10 )
            => /\ out'.result # "Login required"
               /\ session'._current_user = session._current_user
      ]_vars

\* C6 happens: past the first 10 minutes, a gated command ran for a session
\* that held a user, and the session holds the user with a timestamp of now.
C6_Witness ==
    /\ now > 10
    /\ out.cmd \in LoginGated
    /\ out.had_user
    /\ out.ran
    /\ out.result # "Raise"
    /\ session._current_user # <<>>
    /\ session.last_visited_date = now

\* C7 as stated: a login attempt with a wrong password leaves the session's
\* user, company and last-access timestamp as they were.
C7_FailedLoginKeepsSession ==
    [][ ( /\ out'.cmd = "auth_login"
          /\ StoredUser(out'.args[1]) # <<>>
          /\ StoredUser(out'.args[1])[1].password_hash # out'.args[2] )
        => session' = session
      ]_vars

\* C7: a login attempt with a wrong password is refused ("Invalid
\* credentials") and leaves the data store as it was, but not the session:
\* login resets the session first, so afterwards it holds no user, no
\* company, and the time of the attempt as its timestamp.
C7_FailedLoginResetsSession ==
    [][ ( /\ out'.cmd = "auth_login"
          /\ StoredUser(out'.args[1]) # <<>>
          /\ StoredUser(out'.args[1])[1].password_hash # out'.args[2] )
        => /\ out'.result = "Invalid credentials"
           /\ data' = data
           /\ session' = [_current_user |-> <<>>, company |-> <<>>, last_visited_date |-> now]
      ]_vars

\* C7 happens: a login with a wrong password was attempted while a user
\* was logged in.
C7_Witness ==
    /\ out.cmd = "auth_login"
    /\ out.had_user
    /\ StoredUser(out.args[1]) # <<>>
    /\ StoredUser(out.args[1])[1].password_hash # out.args[2]
    /\ out.result = "Invalid credentials"

\* C8: after auth logout, and after auth login with an unknown username or
\* a wrong password, the session holds no user and no company.
C8_SessionEmptied ==
    ( \/ out.cmd = "auth_logout"
      \/ /\ out.cmd = "auth_login"
         /\ \/ StoredUser(out.args[1]) = <<>>
            \/ StoredUser(out.args[1])[1].password_hash # out.args[2] )
    => (session._current_user = <<>> /\ session.company = <<>>)

\* C8 happens: auth logout was run on a session that held a user.
C8_Witness ==
    /\ out.cmd = "auth_logout"
    /\ out.had_user
    /\ session._current_user = <<>>
    /\ session.company = <<>>

\* C9: after auth login with a username that is, up to case, that of a
\* stored user (the first such in store order) and with exactly that user's
\* password, the session's user is that user; its company is the company of
\* the given name if a name was given, a company has that name and the user
\* is a member of it, and none otherwise.
C9_LoginSetsSession ==
    ( /\ out.cmd = "auth_login"
      /\ StoredUser(out.args[1]) # <<>>
      /\ StoredUser(out.args[1])[1].password_hash = out.args[2] )
    => LET user   == StoredUser(out.args[1])[1]
           named  == {i \in DOMAIN data.companies :
                        out.args[3] # <<>> /\ data.companies[i].name = out.args[3][1]}
           joined == {i \in named : ~NoMembership(data.companies[i], user)}
       IN  /\ session._current_user # <<>>
           /\ session._current_user[1].username = user.username
           /\ session._current_user[1].password_hash = user.password_hash
           /\ session._current_user[1].roles = user.roles
           /\ joined = {} => session.company = <<>>
           /\ joined # {} => /\ session.company # <<>>
                             /\ \E i \in joined :
                                   /\ session.company[1].name = data.companies[i].name
                                   /\ session.company[1].inventory = data.companies[i].inventory

\* C9 happens: "alice" logged in as the stored user "Alice" into Boat Store.
C9_Witness ==
    /\ out.cmd = "auth_login"
    /\ out.args[1] = S_alice
    /\ out.args[3] = <<S_BoatStore>>
    /\ session._current_user # <<>>
    /\ session._current_user[1].username = S_Alice
    /\ session.company # <<>>
    /\ session.company[1].name = S_BoatStore

\* the call whose result `ret` holds
Called(op) == ret # <<>> /\ ret[1].op = op

RECURSIVE Chain(_, _)
Chain(category, n) ==
    IF category = <<>> \/ n = 0 THEN <<>>
    ELSE <<category[1]>> \o Chain(cats[category[1]].parent, n - 1)

\* the chain of a product's category ends in None
EndsInNone(product) ==
    Len(Chain(product.category, Cardinality(DOMAIN cats) + 1)) <= Cardinality(DOMAIN cats)

\* the category's id is the id of one of the categories of the product's chain
InChain(product, c) ==
    LET chain == Chain(product.category, Cardinality(DOMAIN cats) + 1)
    IN  \E j \in DOMAIN chain : cats[chain[j]].cat_id = cats[c].cat_id

\* C10: for a product whose category chain c0 -> ... -> cn ends in None (the
\* categories' ids being distinct), has_category(c) is true iff c's id is
\* the id of one of c0..cn, and get_products of a category keeps exactly
\* the products for which that holds; a product with no category has no
\* category at all.
C10_HasCategory ==
    LET products == data.companies[1].inventory.products
    IN  /\ Called("has_category")
            => LET product == products[ret[1].product]
               IN  /\ EndsInNone(product) => (ret[1].value <=> InChain(product, ret[1].category))
                   /\ product.category = <<>> => ~ret[1].value
        /\ Called("get_products")
            => \A i \in DOMAIN products :
                  EndsInNone(products[i])
                     => ((\E j \in DOMAIN ret[1].value : ret[1].value[j] = products[i])
                            <=> InChain(products[i], ret[1].category))

\* C10 happens: a product was found to have a category that is not its own
\* but an ancestor of it, on a chain of two categories or more that ends in
\* None.
C10_Witness ==
    /\ Called("has_category")
    /\ ret[1].value
    /\ LET product == data.companies[1].inventory.products[ret[1].product]
       IN  /\ EndsInNone(product)
           /\ Len(Chain(product.category, 3)) >= 2
           /\ product.category # <<ret[1].category>>

\* C11: constructing a Product ends for every parent-link graph, cyclic
\* ones included, and without an error: the closure it caches holds exactly
\* the ids of the categories met from its own category up the parent links
\* until None or a category already met; for the two-cycle c0 -> c1 -> c0
\* that is {c0.cat_id, c1.cat_id}.
C11_ClosureOfAnyGraph ==
    \A i \in DOMAIN data.companies[1].inventory.products :
        LET product == data.companies[1].inventory.products[i]
            chain   == Chain(product.category, Cardinality(DOMAIN cats))
        IN  /\ product._categories_ids = {cats[chain[j]].cat_id : j \in DOMAIN chain}
            /\ ( /\ product.category = <<"c0">>
                 /\ cats["c0"].parent = <<"c1">>
                 /\ cats["c1"].parent = <<"c0">> )
                => product._categories_ids = {cats["c0"].cat_id, cats["c1"].cat_id}

\* C11 happens: a product of c0 was constructed while c0 and c1 were each
\* other's parent.
C11_Witness ==
    /\ cats["c0"].parent = <<"c1">>
    /\ cats["c1"].parent = <<"c0">>
    /\ \E i \in DOMAIN data.companies[1].inventory.products :
          /\ data.companies[1].inventory.products[i].category = <<"c0">>
          /\ data.companies[1].inventory.products[i]._categories_ids = {1, 100}

\* C12 as stated: no assignment of a category's parent and no
\* Product.update, whatever its mapping, changes what has_category answers
\* for any constructed product and any category.
C12_ClosureImmutable ==
    [][ \A i \in DOMAIN data.companies[1].inventory.products : \A c \in CatRefs :
            HasCategoryCall(data'.companies[1].inventory.products[i], cats'[c])
              = HasCategoryCall(data.companies[1].inventory.products[i], cats[c])
      ]_vars

\* C13 as stated: Product.update raises nothing, sets every key of the
\* mapping that names an attribute the product has to the value given (the
\* last one given for the key), leaves every other attribute as it was and
\* adds no attribute for a key that names none.
C13_UpdateSetsKnownKeys ==
    [][ (ret' # <<>> /\ ret'[1].op = "update")
        => LET old    == data.companies[1].inventory.products[ret'[1].product]
               new    == data'.companies[1].inventory.products[ret'[1].product]
               kwargs == ret'[1].kwargs
               known  == {j \in DOMAIN kwargs :
                             kwargs[j][1] \in DOMAIN old \cup ClassAttributes}
           IN  /\ ~ret'[1].raised
               /\ DOMAIN new = DOMAIN old \cup {kwargs[j][1] : j \in known}
               /\ \A j \in known :
                     (\A h \in known : kwargs[h][1] = kwargs[j][1] => h <= j)
                        => new[kwargs[j][1]] = kwargs[j][2]
               /\ \A k \in DOMAIN old \ {kwargs[j][1] : j \in known} : new[k] = old[k]
      ]_vars

\* C14: add_member appends a Membership with active = true, whether or not
\* the user has one already, and leaves the earlier ones as they were; when
\* the user had one already, has_permission and is_member answer as before
\* for every user and code.
C14_AddMemberKeepsFirst ==
    [][ Len(data'.companies[1].employees) = Len(data.companies[1].employees) + 1
        => LET old   == data.companies[1]
               new   == data'.companies[1]
               added == new.employees[Len(new.employees)]
           IN  /\ SubSeq(new.employees, 1, Len(old.employees)) = old.employees
               /\ added.active
               /\ ~NoMembership(old, added.user)
                    => \A u \in ModelUsers :
                          /\ IsMember(new, u) <=> IsMember(old, u)
                          /\ \A code \in ModelCodes :
                                CompanyHasPermission(new, u, code)
                                  = CompanyHasPermission(old, u, code)
      ]_vars

\* C14 happens: a user holds two memberships of the company, with
\* different roles.
C14_Witness ==
    \E i, j \in DOMAIN data.companies[1].employees :
        /\ i < j
        /\ ~NoMembership([employees |-> <<data.companies[1].employees[i]>>],
                         data.companies[1].employees[j].user)
        /\ data.companies[1].employees[i].role # data.companies[1].employees[j].role

\* C15 as stated: get_employees returns, in insertion order, the users of
\* the memberships with active = true (of those whose role name is in the
\* list when one is given); a user whose first membership is inactive is
\* still a member for is_member (which is all that login asks of the
\* company) and still gets that membership's role permissions from
\* has_permission.
C15_ActiveOnlyInGetEmployees ==
    LET company == data.companies[1]
    IN  /\ Called("get_employees")
            => LET role   == ret[1].role
                   listed == {i \in DOMAIN company.employees :
                                /\ company.employees[i].active
                                /\ \/ role = <<>>
                                   \/ /\ company.employees[i].role # <<>>
                                      /\ company.employees[i].role[1].name \in role[1]}
               IN  /\ ~ret[1].raised
                   /\ Len(ret[1].value) = Cardinality(listed)
                   /\ \A n \in DOMAIN ret[1].value :
                         \E i \in listed :
                            /\ Cardinality({j \in listed : j <= i}) = n
                            /\ ret[1].value[n] = company.employees[i].user
        /\ \A u \in ModelUsers :
              LET held == {i \in DOMAIN company.employees :
                             ~NoMembership([employees |-> <<company.employees[i]>>], u)}
                  first == company.employees[CHOOSE i \in held : \A j \in held : i <= j]
              IN  (held # {} /\ ~first.active /\ first.role # <<>>)
                     => /\ IsMember(company, u)
                        /\ \A code \in ModelCodes :
                              CompanyHasPermission(company, u, code) = "True"
                                <=> \E j \in DOMAIN first.role[1].permissions :
                                       first.role[1].permissions[j] = code

\* C16 as stated: a permission check never raises. After any sequence of
\* commands, `user add` with a role name that does not exist included, a
\* gated command that was not allowed ended in "Not Authorized" or "Login
\* required", and the commands that look a user, company, category, product
\* or role up did not end in an exception.
C16_PermissionCheckNeverRaises ==
    /\ (out.cmd \in LoginGated /\ ~out.ran)
          => out.result \in {"Not Authorized", "Login required"}
    /\ (out.cmd \in {"user_add", "inventory_search", "inventory_product_details"} /\ out.ran)
          => out.result # "Raise"

\* whether a product with that SKU is among those the command searches:
\* the session company's when one is selected, else every company's
SkuKnown(sku) ==
    IF session.company # <<>>
    THEN \E j \in DOMAIN session.company[1].inventory.products :
            session.company[1].inventory.products[j].uuid = sku
    ELSE \E i \in DOMAIN data.companies :
            \E j \in DOMAIN data.companies[i].inventory.products :
               data.companies[i].inventory.products[j].uuid = sku

\* whether some company's name is the given one up to letter case
CompanyKnown(name) ==
    \E i \in DOMAIN data.companies : SameFolded(data.companies[i].name, name)

\* C17: `inventory update` changes a product only when the payload parses
\* into a mapping, the SKU is found and the prompt is confirmed, and then no
\* product with another SKU, no user, role or membership changes; with a
\* payload that is no mapping, an unknown SKU or a declined prompt neither
\* the data store nor the selected company changes. `user add` leaves the
\* data store as it was when the prompt is declined, the username exists
\* already or the named company is not found.
C17_FailedCommandsChangeNothing ==
    [][ /\ (out'.cmd \in {"inventory_update", "user_add"} /\ ~out'.ran)
           => /\ data' = data
              /\ session'.company # <<>> => session'.company = session.company
        /\ (out'.cmd = "inventory_update" /\ out'.ran)
           => LET sku == out'.args[1]
                  p   == out'.args[2]
                  y   == out'.args[3]
              IN  /\ (p.parse # "dict" \/ ~SkuKnown(sku) \/ ~y)
                        => /\ data' = data
                           /\ session'.company # <<>> => session'.company = session.company
                  /\ data'.users = data.users /\ data'.roles = data.roles
                  /\ Len(data'.companies) = Len(data.companies)
                  /\ \A i \in DOMAIN data.companies :
                        /\ data'.companies[i].employees = data.companies[i].employees
                        /\ Len(data'.companies[i].inventory.products)
                              = Len(data.companies[i].inventory.products)
                        /\ \A j \in DOMAIN data.companies[i].inventory.products :
                              data.companies[i].inventory.products[j].uuid # sku
                              => data'.companies[i].inventory.products[j]
                                    = data.companies[i].inventory.products[j]
        /\ (out'.cmd = "user_add" /\ out'.ran)
           => LET username == out'.args[1]
                  company  == out'.args[4]
                  y        == out'.args[5]
              IN  ( \/ ~y
                    \/ StoredUser(username) # <<>>
                    \/ (company # <<>> /\ ~CompanyKnown(company[1])) )
                  => data' = data
      ]_vars

\* C17 witness: an update of a known SKU of the selected company was
\* declined at the prompt
C17_Witness ==
    /\ out.cmd = "inventory_update"
    /\ out.ran
    /\ out.result = "Update cancelled"
    /\ session.company # <<>>

\* C18 as stated: after a command has saved and the next one has loaded,
\* every membership's user is the very entity of the users collection, and
\* the session's current user and current company are the very entities of
\* the reloaded data store, with their field values, not copies of them.
C18_ReloadKeepsIdentity ==
    /\ \A c \in DOMAIN data.companies :
          \A m \in DOMAIN data.companies[c].employees :
             \E i \in DOMAIN data.users :
                data.users[i] = data.companies[c].employees[m].user
    /\ session._current_user # <<>>
          => \E i \in DOMAIN data.users : data.users[i] = session._current_user[1]
    /\ session.company # <<>>
          => \E c \in DOMAIN data.companies : data.companies[c] = session.company[1]

\* what `auth login -c NAME` did with the name, once the credentials passed
LoginResolved ==
    /\ out.cmd = "auth_login"
    /\ out.args[3] # <<>>
    /\ out.result \in {"Company not found", "Not a member", "Logged in company"}

\* what `user add -c NAME` did with the name, once the prompt was confirmed
UserAddResolved ==
    /\ out.cmd = "user_add"
    /\ out.ran
    /\ out.args[4] # <<>>
    /\ out.result \in {"Company not found", "User added to company"}

\* C19 as stated: `auth login -c NAME` and `user add -c NAME` both resolve
\* NAME without regard to letter case: the name is reported as not found
\* only when no company has that name up to case, and otherwise the company
\* logged into, or joined, is the one of that name.
C19_CompanyNameAnyCase ==
    /\ LoginResolved
          => /\ out.result = "Company not found" <=> ~CompanyKnown(out.args[3][1])
             /\ out.result = "Logged in company"
                   => SameFolded(session.company[1].name, out.args[3][1])
    /\ UserAddResolved
          => /\ out.result = "Company not found" <=> ~CompanyKnown(out.args[4][1])
             /\ out.result = "User added to company"
                   => \E c \in DOMAIN data.companies :
                         /\ SameFolded(data.companies[c].name, out.args[4][1])
                         /\ LET e == data.companies[c].employees
                            IN  e # <<>> /\ e[Len(e)].user.username = out.args[1]

\* C20 as stated: after a confirmed `exit` the saved session has no current
\* user and no current company, so that a gated command invoked next
\* reports "Login required"; a declined `exit` leaves the session as it was.
C20_ExitResetsSession ==
    [][ /\ (out'.cmd = "exit" /\ out'.result = "Bye!")
              => session'._current_user = <<>> /\ session'.company = <<>>
        /\ (out.cmd = "exit" /\ out.result = "Bye!" /\ out'.cmd \in LoginGated)
              => out'.result = "Login required"
        /\ (out'.cmd = "exit" /\ out'.result = "Exit cancelled")
              => session' = session
      ]_vars

\* ------------------------------------------- the inventory commands alone

\* SKUs of the Boat Store (SKU001), of Yachts Inc only (SKU006), of nobody
TenantSkus == {"SKU001", "SKU006", "SKU999"}

TenantSearchSkus == {None, Some("SKU001"), Some("SKU006")}

\* `auth login` as typed by Alice, with and without her company, and by the
\* superuser
TenantLogins ==
    { <<S_alice, "alice", Some(S_BoatStore)>>,
      <<S_alice, "alice", None>>,
      <<S_superuser, "superuser", None>> }

\* main() run for logins, logouts and the four inventory commands
NextTenant ==
    \/ \E l \in TenantLogins : Login(l[1], l[2], l[3])
    \/ Logout
    \/ GetInventoryList
    \/ \E sku \in TenantSearchSkus, c \in SearchCategoryIds : SearchInventory(sku, c)
    \/ \E sku \in TenantSkus : GetProductDetails(sku)
    \/ \E sku \in TenantSkus, p \in Payloads, y \in BOOLEAN : UpdateInventory(sku, p, y)
    \/ \E m \in TickSteps : Tick(m)

SpecTenant == Init /\ [][NextTenant]_vars

InventoryCommands ==
    {"inventory_view", "inventory_search", "inventory_product_details", "inventory_update"}

\* the SKU a product-details, update or SKU search was given, if any
AskedSku(o) ==
    IF o.cmd \in {"inventory_product_details", "inventory_update"} THEN <<o.args[1]>>
    ELSE IF o.cmd = "inventory_search" THEN o.args[1]
    ELSE <<>>

\* C21: an inventory command that runs while a company is selected shows
\* only SKUs of that company's inventory, answers "Product not found" for
\* a SKU that the company does not hold (one of another company included;
\* an update whose payload does not decode ends in "Invalid JSON" before it
\* looks the SKU up), leaves every product of the data store as it was, and
\* changes in the selected company at most the product with the SKU asked
\* for.
C21_TenantIsolation ==
    [][ (out'.cmd \in InventoryCommands /\ out'.ran /\ session.company # <<>>)
        => LET own == session.company[1].inventory.products
               sku == AskedSku(out')
           IN  /\ out'.shown \subseteq Uuids(own)
               /\ (sku # <<>> /\ sku[1] \notin Uuids(own))
                     => \/ out'.result = "Product not found"
                        \/ /\ out'.cmd = "inventory_update"
                           /\ out'.args[2].parse = "JSONDecodeError"
                           /\ out'.result = "Invalid JSON"
               /\ data' = data
               /\ session'.company # <<>>
               /\ Len(session'.company[1].inventory.products) = Len(own)
               /\ \A j \in DOMAIN own :
                     session'.company[1].inventory.products[j] # own[j]
                     => /\ out'.cmd = "inventory_update"
                        /\ own[j].uuid = sku[1]
      ]_vars

\* C21 witness: with the Boat Store selected, product-details of a SKU that
\* only Yachts Inc holds answered "Product not found"
C21_Witness ==
    /\ out.cmd = "inventory_product_details"
    /\ out.ran
    /\ out.args = <<"SKU006">>
    /\ out.result = "Product not found"
    /\ session.company # <<>>
    /\ \E j \in DOMAIN data.companies[2].inventory.products :
          data.companies[2].inventory.products[j].uuid = "SKU006"

\* C22 as stated: once `inventory update` has reported success for a SKU,
\* the product of that SKU in the saved data store, which is what every
\* later invocation loads, carries the values of the payload for the
\* attributes it has, whether or not a company was selected for the update.
C22_UpdateDurable ==
    (out.cmd = "inventory_update" /\ out.result = "Product updated")
    => LET sku    == out.args[1]
           kwargs == out.args[2].value
       IN  \E i \in DOMAIN data.companies :
              \E j \in DOMAIN data.companies[i].inventory.products :
                 LET product == data.companies[i].inventory.products[j]
                 IN  /\ product.uuid = sku
                     /\ \A k \in DOMAIN kwargs :
                           kwargs[k][1] \in DOMAIN product
                           => product[kwargs[k][1]] = kwargs[k][2]

\* whether some membership of the company is held by a user with the
\* username, password and roles of the given one
HoldsMembership(company, user) ==
    \E m \in DOMAIN company.employees :
       /\ company.employees[m].user.username = user.username
       /\ company.employees[m].user.password_hash = user.password_hash
       /\ company.employees[m].user.roles = user.roles

\* C23: after any sequence of commands, a session with a current company
\* has a current user, and that user holds a membership in the session's
\* company and in the company of that name in the data store.
C23_CompanyOnlyWithMember ==
    session.company # <<>>
    => /\ session._current_user # <<>>
       /\ HoldsMembership(session.company[1], session._current_user[1])
       /\ \E c \in DOMAIN data.companies :
             /\ data.companies[c].name = session.company[1].name
             /\ HoldsMembership(data.companies[c], session._current_user[1])

\* C23 witness: dave, added to the Boat Store by `user add`, is logged into
\* it, and a command has run since that login
C23_Witness ==
    /\ session.company # <<>>
    /\ session._current_user # <<>>
    /\ session._current_user[1].username = S_dave
    /\ out.cmd # "auth_login"

\* ---------------------------------------- a host calling Context directly

\* the users and the company the host sets
ContextUsers == {1, 4}

ContextCompanies == {1}

\* ctx.set_user(user)
CallSetUser(user) ==
    /\ session' = SetUser(session, user, now)
    /\ ret' = Some([op |-> "set_user"])
    /\ out' = NoOutput
    /\ UNCHANGED <<data, now, cats>>

\* ctx.set_company(company)
CallSetCompany(company) ==
    /\ session' = SetCompany(session, company)
    /\ ret' = Some([op |-> "set_company"])
    /\ out' = NoOutput
    /\ UNCHANGED <<data, now, cats>>

\* ctx.reset_session()
CallResetSession ==
    /\ session' = ResetSession(session, now)
    /\ ret' = Some([op |-> "reset_session"])
    /\ out' = NoOutput
    /\ UNCHANGED <<data, now, cats>>

\* reading ctx.current_user
CallCurrentUser ==
    LET r == SessionGetCurrentUser(session, now)
    IN  /\ session' = r.session
        /\ ret' = Some([op |-> "current_user", value |-> r.value])
        /\ out' = NoOutput
        /\ UNCHANGED <<data, now, cats>>

\* reading ctx.current_company
CallCurrentCompany ==
    /\ ret' = Some([op |-> "current_company", value |-> session.company])
    /\ out' = NoOutput
    /\ UNCHANGED <<data, session, now, cats>>

\* evaluating ctx.user_logged_in
CallUserLoggedIn ==
    LET r == UserLoggedIn(session, now)
    IN  /\ session' = r.session
        /\ ret' = Some([op |-> "user_logged_in", value |-> r.value])
        /\ out' = NoOutput
        /\ UNCHANGED <<data, now, cats>>

NextContext ==
    \/ \E i \in ContextUsers : CallSetUser(data.users[i])
    \/ \E i \in ContextCompanies : CallSetCompany(data.companies[i])
    \/ CallResetSession
    \/ CallCurrentUser
    \/ CallCurrentCompany
    \/ CallUserLoggedIn
    \/ \E m \in TickSteps : Tick(m)

SpecContext == Init /\ [][NextContext]_vars

\* more than the timeout has passed since the last access
Stale(s, t) == s.last_visited_date + SessionTimeout < t

\* C24 as stated: on a session with a user whose last access is more than
\* 10 minutes ago, no Context operation other than set_user returns the old
\* user from current_user or true from user_logged_in, and none leaves a
\* session that counts as logged in.
C24_StaleNeverRevived ==
    [][ ( /\ session._current_user # <<>>
          /\ Stale(session, now)
          /\ now' = now
          /\ ret'[1].op # "set_user" )
        => /\ ret'[1].op = "current_user" => ret'[1].value = <<>>
           /\ ret'[1].op = "user_logged_in" => ~ret'[1].value
           /\ session'._current_user = <<>> \/ Stale(session', now')
      ]_vars

\* the usernames of a list of users are pairwise distinct ignoring case
DistinctUsernames(users) ==
    \A i, j \in DOMAIN users :
       i # j => ~SameFolded(users[i].username, users[j].username)

\* C25: a command never makes two usernames of the data store equal up to
\* letter case when none were before, and a `user add` whose username
\* matches a stored one up to case leaves the users and every company's
\* memberships as they were.
C25_UsernamesStayDistinct ==
    [][ /\ (data'.users # data.users /\ DistinctUsernames(data.users))
              => DistinctUsernames(data'.users)
        /\ (out'.cmd = "user_add" /\ out'.ran /\ StoredUser(out'.args[1]) # <<>>)
              => /\ out'.result = "User already exists"
                 /\ data'.users = data.users
                 /\ Len(data'.companies) = Len(data.companies)
                 /\ \A c \in DOMAIN data.companies :
                       data'.companies[c].employees = data.companies[c].employees
      ]_vars

\* C25 witness: after dave was added, `user add -u alice` was refused
\* because of the stored "Alice", and the usernames are still distinct
C25_Witness ==
    /\ out.cmd = "user_add"
    /\ out.ran
    /\ out.args[1] = S_alice
    /\ out.result = "User already exists"
    /\ Len(data.users) = 5
    /\ data.users[1].username = S_Alice
    /\ DistinctUsernames(data.users)

====
